---- MODULE Spec2Model ----
\* Wallet session of src/src/contexts/Web3Context.tsx (Web3Provider):
\* the five useState cells, connectWallet / disconnectWallet /
\* switchToSepolia, the accountsChanged / chainChanged handlers and the
\* auto-connect effect, run on one cooperative thread with a suspension
\* point at every awaited wallet request.
EXTENDS Integers, Sequences, FiniteSets, TLC

\* ---------------------------------------------------------------- bounds
MaxCalls == 1          \* user-initiated calls that may be in flight at once
MaxPending == 1        \* wallet events queued and not yet handled
MaxAccounts == 2       \* accounts held by the wallet
MaxMounts == 2         \* times the provider component is mounted

\* ------------------------------------------------------------- constants
SEPOLIA_CHAIN_ID == 11155111
SEPOLIA_RPC_URL == "https://eth-sepolia.g.alchemy.com/v2/d8cu_4ZQnwo5G_j-l7xXLA0IgBwzrhp9"
UNRECOGNIZED_CHAIN == 4902
HexBase == 16

\* an absent value (null) and a present one
None == <<>>
Some(v) == <<v>>

\* ------------------------------------------------- the wallet's universe
\* the wallet holds MaxAccounts accounts; it exposes either none of them (locked,
\* or the page is not authorized) or all of them, the selected one first and the
\* others in their fixed order
AddressPool == <<"0xAA", "0xBB", "0xCC", "0xDD">>
Addresses == {AddressPool[i] : i \in 1..MaxAccounts}
SelectedFirst(k) ==
  <<AddressPool[k]>> \o SelectSeq(SubSeq(AddressPool, 1, MaxAccounts),
                                  LAMBDA a : a # AddressPool[k])
AccountLists == {<<>>} \cup {SelectedFirst(k) : k \in 1..MaxAccounts}
WalletChains == {1, SEPOLIA_CHAIN_ID}

\* 0 is the call made by the auto-connect effect, 1..MaxCalls are the user's
Callers == 0..MaxCalls
UserCallers == 1..MaxCalls

\* ------------------------------------------- number <-> hex string (chars)
HexDigits == <<"0","1","2","3","4","5","6","7","8","9","a","b","c","d","e","f">>
UpperDigits == <<"0","1","2","3","4","5","6","7","8","9","A","B","C","D","E","F">>
NaN == -1

RECURSIVE toString16(_)
\* Number.prototype.toString(16) of a non-negative integer
toString16(n) ==
  IF n < HexBase THEN <<HexDigits[n + 1]>>
  ELSE Append(toString16(n \div HexBase), HexDigits[(n % HexBase) + 1])

\* the template literal `0x${n.toString(16)}`
HexOf(n) == <<"0", "x">> \o toString16(n)

\* value of one character as a base-16 digit, NaN when it is not one
DigitValue(c) ==
  IF \E i \in 1..HexBase : HexDigits[i] = c
    THEN (CHOOSE i \in 1..HexBase : HexDigits[i] = c) - 1
  ELSE IF \E i \in 1..HexBase : UpperDigits[i] = c
    THEN (CHOOSE i \in 1..HexBase : UpperDigits[i] = c) - 1
  ELSE NaN

StripPrefix(s) ==
  IF Len(s) >= 2 /\ s[1] = "0" /\ s[2] \in {"x", "X"} THEN SubSeq(s, 3, Len(s)) ELSE s

RECURSIVE ParseDigits(_, _, _)
\* longest run of leading digits, accumulated left to right
ParseDigits(s, acc, seen) ==
  IF s = <<>> \/ DigitValue(Head(s)) = NaN
    THEN IF seen THEN acc ELSE NaN
  ELSE ParseDigits(Tail(s), acc * HexBase + DigitValue(Head(s)), TRUE)

\* parseInt(chainIdHex, 16)
parseInt16(s) == ParseDigits(StripPrefix(s), 0, FALSE)

\* ----------------------------------------------------------- notifications
ToastKind(msg) ==
  CASE msg \in {"Wallet connected successfully!", "Wallet disconnected"} -> "success"
    [] msg = "Attempting auto-connect..." -> "loading"
    [] OTHER -> "error"
Toast(msg) == [kind |-> ToastKind(msg), msg |-> msg]

\* ------------------------------------------------------- adapter requests
SwitchRequest ==
  [method |-> "wallet_switchEthereumChain", params |-> <<HexOf(SEPOLIA_CHAIN_ID)>>]
AddRequest ==
  [method |-> "wallet_addEthereumChain",
   params |-> <<HexOf(SEPOLIA_CHAIN_ID), "Sepolia Test Network", "Sepolia Ether", "ETH",
                "18", SEPOLIA_RPC_URL, "https://sepolia.etherscan.io/">>]
Request(m) == [method |-> m, params |-> <<>>]
\* the request a suspended caller is waiting on, by the await it stands at
RequestAt(at) ==
  CASE at = "wallet_switchEthereumChain" -> SwitchRequest
    [] at = "wallet_addEthereumChain" -> AddRequest
    [] OTHER -> Request(at)

VARIABLES
  provider, signer, account, chainId, isConnected,   \* the useState cells
  hasEthereum,      \* typeof window.ethereum !== 'undefined'
  mounted,          \* the effects of the component have run
  mounts,           \* how many times they have run
  listeners,        \* per wallet event: handlers registered on window.ethereum
  walletAccounts,   \* accounts the wallet currently exposes, selected first
  walletChain,      \* chain the wallet is currently on
  events,           \* wallet events emitted and not yet handled, oldest first
  pc,               \* per caller: the awaited request it is suspended at
  call,             \* per caller: locals and record of its current/last call
  emitted           \* toasts raised by the step just taken

\* the five cells read together, and the batch of setters that writes them
session ==
  [provider |-> provider, signer |-> signer, account |-> account,
   chainId |-> chainId, isConnected |-> isConnected]
SetSession(s) ==
  /\ provider' = s.provider /\ signer' = s.signer /\ account' = s.account
  /\ chainId' = s.chainId /\ isConnected' = s.isConnected
vars == <<provider, signer, account, chainId, isConnected, hasEthereum, mounted,
          mounts, listeners, walletAccounts, walletChain, events, pc, call, emitted>>

\* variant: disconnectWallet forgets the chain id
Cleared_KeepsChain ==
  [provider |-> None, signer |-> None, account |-> None, chainId |-> chainId,
   isConnected |-> FALSE]
\* variant: disconnectWallet only lowers the flag
Cleared_FlagOnly ==
  [provider |-> provider, signer |-> signer, account |-> account,
   chainId |-> chainId, isConnected |-> FALSE]
\* the session after the five setters of disconnectWallet
Cleared ==
  [provider |-> None, signer |-> None, account |-> None, chainId |-> None,
   isConnected |-> FALSE]

\* ------------------------------------------------------------ call records
\* op: which exported function the caller is inside; accounts, signerLocal:
\* the locals of connectWallet; network: the answer to getNetwork that the
\* wallet has produced and the call has not resumed with yet; toasts: what the
\* call has raised so far;
\* clean: the call began on the initial (fully cleared) session and no other
\* handler has run since.
NoCall ==
  [op |-> "none", accounts |-> <<>>, signerLocal |-> None, network |-> None,
   toasts |-> <<>>, clean |-> FALSE]
NewCall(op) ==
  [op |-> op, accounts |-> <<>>, signerLocal |-> None, network |-> None,
   toasts |-> <<>>, clean |-> (session = Cleared)]
InFlight(p) == pc[p] # "idle"
\* a user call takes the lowest slot that is not in flight
FreeSlot(p) ==
  /\ p \in UserCallers /\ pc[p] = "idle"
  /\ \A q \in UserCallers : q < p => InFlight(q)

\* every call in flight other than p has been interleaved by this step
Interleaved(p, c) ==
  [q \in Callers |->
     IF q = p THEN c
     ELSE IF InFlight(q) THEN [call[q] EXCEPT !.clean = FALSE] ELSE call[q]]

\* caller p moves on to the await newpc with record c
Step(p, newpc, c) ==
  /\ pc' = [pc EXCEPT ![p] = newpc]
  /\ call' = Interleaved(p, c)
\* caller p's call returns having raised ts; its locals go out of scope
Return(p, ts) ==
  /\ pc' = [pc EXCEPT ![p] = "idle"]
  /\ call' = Interleaved(p, NoCall)
  /\ emitted' = ts
\* a handler that belongs to no caller runs
Interleave ==
  /\ pc' = pc
  /\ call' = [q \in Callers |->
                IF InFlight(q) THEN [call[q] EXCEPT !.clean = FALSE] ELSE call[q]]
\* no caller moves
CallsUnchanged == UNCHANGED <<pc, call>>

\* the wallet emits an event to the listeners of the subscription effect
Emit(ev) == Append(events, ev)
AccountsChangedEvent(l) == [type |-> "accountsChanged", accounts |-> l, hex |-> <<>>]
ChainChangedEvent(c) == [type |-> "chainChanged", accounts |-> <<>>, hex |-> HexOf(c)]

SessionUnchanged == UNCHANGED <<provider, signer, account, chainId, isConnected>>
WalletUnchanged == UNCHANGED <<walletAccounts, walletChain, events>>
EnvUnchanged == UNCHANGED <<hasEthereum, mounted, mounts, listeners>>

\* ------------------------------------------------------------------- Init
Init ==
  /\ provider = None /\ signer = None /\ account = None /\ chainId = None
  /\ isConnected = FALSE
  /\ hasEthereum \in BOOLEAN
  /\ mounted = FALSE
  /\ mounts = 0
  /\ listeners = [accountsChanged |-> 0, chainChanged |-> 0]
  /\ walletAccounts \in (IF hasEthereum THEN AccountLists ELSE {<<>>})
  /\ walletChain \in (IF hasEthereum THEN WalletChains ELSE {SEPOLIA_CHAIN_ID})
  /\ events = <<>>
  /\ pc = [p \in Callers |-> "idle"]
  /\ call = [p \in Callers |-> NoCall]
  /\ emitted = <<>>

\* -------------------------------------------------------- disconnectWallet

DisconnectWallet ==
  /\ mounted
  /\ SetSession(Cleared)
  /\ emitted' = <<Toast("Wallet disconnected")>>
  /\ Interleave
  /\ WalletUnchanged /\ EnvUnchanged

\* ---------------------------------------------------------- switchToSepolia
\* synchronous prefix of switchToSepolia inside caller p, whose record is c
\* and which has raised ts earlier in this step
SwitchBegin(p, c, ts) ==
  IF hasEthereum
    THEN /\ Step(p, "wallet_switchEthereumChain", [c EXCEPT !.toasts = c.toasts \o ts])
         /\ emitted' = ts
    ELSE \* window.ethereum.request throws a TypeError, whose code is not 4902
         Return(p, ts \o <<Toast("Failed to switch to Sepolia network")>>)

SwitchToSepolia(p) ==
  /\ mounted /\ FreeSlot(p)
  /\ SwitchBegin(p, NewCall("switchToSepolia"), <<>>)
  /\ SessionUnchanged /\ WalletUnchanged /\ EnvUnchanged

\* the wallet moves to chain c and says so
WalletOn(c) ==
  /\ walletChain' = c
  /\ events' = IF c # walletChain THEN Emit(ChainChangedEvent(c)) ELSE events
  /\ UNCHANGED walletAccounts

\* variant: a successful switch also records the chain in the session
SwitchResolves_SetsChain(p) ==
  /\ pc[p] = "wallet_switchEthereumChain"
  /\ Len(events) < MaxPending
  /\ WalletOn(SEPOLIA_CHAIN_ID)
  /\ Return(p, <<>>)
  /\ chainId' = Some(SEPOLIA_CHAIN_ID)
  /\ UNCHANGED <<provider, signer, account, isConnected>> /\ EnvUnchanged
SwitchResolves(p) ==
  /\ pc[p] = "wallet_switchEthereumChain"
  /\ Len(events) < MaxPending
  /\ WalletOn(SEPOLIA_CHAIN_ID)
  /\ Return(p, <<>>)
  /\ SessionUnchanged /\ EnvUnchanged

\* variant: every rejection of the switch request is reported, none falls
\* back to adding the chain
SwitchRejectsWith_NoFallback(p, code) ==
  /\ pc[p] = "wallet_switchEthereumChain"
  /\ Return(p, <<Toast("Failed to switch to Sepolia network")>>)
  /\ SessionUnchanged /\ WalletUnchanged /\ EnvUnchanged
\* the catch block of switchToSepolia, entered with switchError.code = code
SwitchRejectsWith(p, code) ==
  /\ pc[p] = "wallet_switchEthereumChain"
  /\ IF code = UNRECOGNIZED_CHAIN
       THEN /\ Step(p, "wallet_addEthereumChain", call[p])
            /\ emitted' = <<>>
       ELSE Return(p, <<Toast("Failed to switch to Sepolia network")>>)
  /\ SessionUnchanged /\ WalletUnchanged /\ EnvUnchanged
SwitchRejects(p) == \E code \in {UNRECOGNIZED_CHAIN, 4001} : SwitchRejectsWith(p, code)

AddResolves(p) ==
  /\ pc[p] = "wallet_addEthereumChain"
  /\ Len(events) < MaxPending
  /\ \E c \in {walletChain, SEPOLIA_CHAIN_ID} : WalletOn(c)
  /\ Return(p, <<>>)
  /\ SessionUnchanged /\ EnvUnchanged

\* variant: a rejected add-network request sends the call back to the switch
\* request
AddRejects_Retries(p) ==
  /\ pc[p] = "wallet_addEthereumChain"
  /\ Step(p, "wallet_switchEthereumChain", call[p])
  /\ emitted' = <<Toast("Failed to add Sepolia network")>>
  /\ SessionUnchanged /\ WalletUnchanged /\ EnvUnchanged
AddRejects(p) ==
  /\ pc[p] = "wallet_addEthereumChain"
  /\ Return(p, <<Toast("Failed to add Sepolia network")>>)
  /\ SessionUnchanged /\ WalletUnchanged /\ EnvUnchanged

\* ------------------------------------------------------------ connectWallet
\* Number(network.chainId): exact for every chain id below 2^53
NumberOf(n) == n
ProviderHandle == [kind |-> "BrowserProvider"]
SignerHandle == [kind |-> "JsonRpcSigner"]

\* variant: the account stored is the last one granted
Populated_LastAccount(prov, sgn, accounts, net) ==
  [provider |-> Some(prov), signer |-> Some(sgn),
   account |-> Some(accounts[Len(accounts)]),
   chainId |-> Some(NumberOf(net)), isConnected |-> TRUE]
\* the five setters at the end of a successful connectWallet
Populated(prov, sgn, accounts, net) ==
  [provider |-> Some(prov), signer |-> Some(sgn), account |-> Some(accounts[1]),
   chainId |-> Some(NumberOf(net)), isConnected |-> TRUE]

ConnectFailed == Toast("Failed to connect wallet. Please try again.")
NotInstalled == Toast("MetaMask is not installed. Please install MetaMask to continue.")
ConnectedToast == Toast("Wallet connected successfully!")
PleaseSwitch == Toast("Please switch to Sepolia Testnet.")

\* variant: the provider check is missing
ConnectBegin_Unchecked(p, before) ==
  /\ Step(p, "eth_requestAccounts", [NewCall("connectWallet") EXCEPT !.toasts = before])
  /\ emitted' = <<>>
\* synchronous prefix of connectWallet inside caller p; before is what the
\* caller had raised before calling it
ConnectBegin(p, before) ==
  IF hasEthereum
    THEN /\ Step(p, "eth_requestAccounts", [NewCall("connectWallet") EXCEPT !.toasts = before])
         /\ emitted' = <<>>
    ELSE Return(p, <<NotInstalled>>)

ConnectWallet(p) ==
  /\ mounted /\ FreeSlot(p)
  /\ ConnectBegin(p, <<>>)
  /\ SessionUnchanged /\ WalletUnchanged /\ EnvUnchanged

\* the catch block of connectWallet
ConnectThrows(p, at) ==
  /\ pc[p] = at
  /\ Return(p, <<ConnectFailed>>)
  /\ SessionUnchanged /\ WalletUnchanged /\ EnvUnchanged

\* variant: an empty grant is treated as a disconnection
RequestAccountsResolves_ClearsOnEmpty(p) ==
  /\ pc[p] = "eth_requestAccounts"
  /\ LET accounts == walletAccounts IN
       IF Len(accounts) > 0
         THEN /\ Step(p, "getSigner", [call[p] EXCEPT !.accounts = accounts])
              /\ emitted' = <<>>
              /\ SessionUnchanged
         ELSE /\ Return(p, <<>>)
              /\ SetSession(Cleared)
  /\ WalletUnchanged /\ EnvUnchanged
RequestAccountsResolves(p) ==
  /\ pc[p] = "eth_requestAccounts"
  /\ LET accounts == walletAccounts IN
       IF Len(accounts) > 0
         THEN /\ Step(p, "getSigner", [call[p] EXCEPT !.accounts = accounts])
              /\ emitted' = <<>>
         ELSE Return(p, <<>>)
  /\ SessionUnchanged /\ WalletUnchanged /\ EnvUnchanged
RequestAccountsRejects(p) == ConnectThrows(p, "eth_requestAccounts")

GetSignerResolves(p) ==
  /\ pc[p] = "getSigner"
  /\ Step(p, "getNetwork", [call[p] EXCEPT !.signerLocal = Some(SignerHandle)])
  /\ emitted' = <<>>
  /\ SessionUnchanged /\ WalletUnchanged /\ EnvUnchanged
GetSignerRejects(p) == ConnectThrows(p, "getSigner")

\* what `await provider.getNetwork()` resumes with in caller p: the answer
\* already in flight, else what the wallet answers now
NetworkOf(p) == IF call[p].network = None THEN walletChain ELSE call[p].network[1]

\* the wallet serves the chain query of getNetwork with the chain it is on;
\* the awaiting call resumes with that answer in a later task, and handlers of
\* events the wallet emits in between may run before it does
GetNetworkAnswers(p) ==
  /\ pc[p] = "getNetwork" /\ call[p].network = None
  /\ call' = [call EXCEPT ![p].network = Some(walletChain)]
  /\ emitted' = <<>>
  /\ UNCHANGED pc
  /\ SessionUnchanged /\ WalletUnchanged /\ EnvUnchanged

\* variant: the completion checks the wallet's chain again before it writes
GetNetworkMatches_Rechecks(p) ==
  /\ pc[p] = "getNetwork"
  /\ NumberOf(NetworkOf(p)) = SEPOLIA_CHAIN_ID
  /\ IF walletChain = SEPOLIA_CHAIN_ID
       THEN /\ SetSession(Populated(ProviderHandle, call[p].signerLocal[1],
                                    call[p].accounts, NetworkOf(p)))
            /\ Return(p, <<ConnectedToast>>)
       ELSE /\ SessionUnchanged
            /\ Return(p, <<>>)
  /\ WalletUnchanged /\ EnvUnchanged
\* getNetwork resolves with the required chain: the connection completes
GetNetworkMatches(p) ==
  /\ pc[p] = "getNetwork"
  /\ NumberOf(NetworkOf(p)) = SEPOLIA_CHAIN_ID
  /\ SetSession(Populated(ProviderHandle, call[p].signerLocal[1],
                          call[p].accounts, NetworkOf(p)))
  /\ Return(p, <<ConnectedToast>>)
  /\ WalletUnchanged /\ EnvUnchanged

\* variant: the setters run before the chain check
GetNetworkDiffers_WritesFirst(p) ==
  /\ pc[p] = "getNetwork"
  /\ NumberOf(NetworkOf(p)) # SEPOLIA_CHAIN_ID
  /\ SetSession(Populated(ProviderHandle, call[p].signerLocal[1],
                          call[p].accounts, NetworkOf(p)))
  /\ SwitchBegin(p, [call[p] EXCEPT !.accounts = <<>>, !.signerLocal = None,
                                    !.network = None], <<PleaseSwitch>>)
  /\ WalletUnchanged /\ EnvUnchanged

\* getNetwork resolves with another chain: warn, ask the wallet to switch;
\* connectWallet returns right after the switch, so its locals are dead from here
GetNetworkDiffers(p) ==
  /\ pc[p] = "getNetwork"
  /\ NumberOf(NetworkOf(p)) # SEPOLIA_CHAIN_ID
  /\ SwitchBegin(p, [call[p] EXCEPT !.accounts = <<>>, !.signerLocal = None,
                                    !.network = None], <<PleaseSwitch>>)
  /\ SessionUnchanged /\ WalletUnchanged /\ EnvUnchanged
GetNetworkRejects(p) == ConnectThrows(p, "getNetwork")

\* ------------------------------------------------------- the event handlers
\* variant: an empty list only clears the account
handleAccountsChanged_ClearsAccount(s, accounts) ==
  IF Len(accounts) = 0 THEN [s EXCEPT !.account = None]
  ELSE [s EXCEPT !.account = Some(accounts[1])]
\* variant: a non-empty list restarts the session around the new account
handleAccountsChanged_Resets(s, accounts) ==
  IF Len(accounts) = 0 THEN Cleared
  ELSE [Cleared EXCEPT !.account = Some(accounts[1])]

handleAccountsChanged(s, accounts) ==
  IF Len(accounts) = 0 THEN Cleared
  ELSE [s EXCEPT !.account = Some(accounts[1])]

\* variant: arriving on the required chain marks the session connected
handleChainChanged_Reconnects(s, chainIdHex) ==
  LET newChainId == parseInt16(chainIdHex)
  IN IF newChainId # SEPOLIA_CHAIN_ID THEN Cleared
     ELSE [s EXCEPT !.chainId = Some(newChainId), !.isConnected = TRUE]
\* variant: the handler records the new chain and does not disconnect
handleChainChanged_KeepsSession(s, chainIdHex) ==
  [s EXCEPT !.chainId = Some(parseInt16(chainIdHex))]

handleChainChanged(s, chainIdHex) ==
  LET newChainId == parseInt16(chainIdHex)
      s1 == [s EXCEPT !.chainId = Some(newChainId)]
  IN IF newChainId # SEPOLIA_CHAIN_ID THEN Cleared ELSE s1

\* toasts of the two handlers
AccountsChangedToasts(accounts) ==
  IF Len(accounts) = 0 THEN <<Toast("Wallet disconnected")>> ELSE <<>>
ChainChangedToasts(chainIdHex) ==
  IF parseInt16(chainIdHex) # SEPOLIA_CHAIN_ID
    THEN <<PleaseSwitch, Toast("Wallet disconnected")>>
  ELSE <<>>

\* window.ethereum.on / removeListener on the listener table ls
On(ls, ev) == [ls EXCEPT ![ev] = @ + 1]
RemoveListener(ls, ev) == [ls EXCEPT ![ev] = IF @ > 0 THEN @ - 1 ELSE 0]
\* the emitter calls every registered handler in turn: the session after n
\* runs of a handler from session s, and the toasts ts of one run raised n
\* times
RECURSIVE AccountsChangedRuns(_, _, _)
AccountsChangedRuns(n, s, accounts) ==
  IF n = 0 THEN s ELSE AccountsChangedRuns(n - 1, handleAccountsChanged(s, accounts), accounts)
RECURSIVE ChainChangedRuns(_, _, _)
ChainChangedRuns(n, s, chainIdHex) ==
  IF n = 0 THEN s ELSE ChainChangedRuns(n - 1, handleChainChanged(s, chainIdHex), chainIdHex)
RECURSIVE Raised(_, _)
Raised(ts, n) == IF n = 0 THEN <<>> ELSE ts \o Raised(ts, n - 1)
\* a handler ran, or the event found nobody listening
Handled(n) == IF n > 0 THEN Interleave ELSE CallsUnchanged

\* the oldest queued event is delivered to the listeners registered for it
OnAccountsChanged ==
  /\ events # <<>> /\ Head(events).type = "accountsChanged"
  /\ LET accounts == Head(events).accounts
         n == listeners.accountsChanged
     IN /\ SetSession(AccountsChangedRuns(n, session, accounts))
        /\ emitted' = Raised(AccountsChangedToasts(accounts), n)
        /\ Handled(n)
  /\ events' = Tail(events)
  /\ UNCHANGED <<walletAccounts, walletChain>> /\ EnvUnchanged

OnChainChanged ==
  /\ events # <<>> /\ Head(events).type = "chainChanged"
  /\ LET chainIdHex == Head(events).hex
         n == listeners.chainChanged
     IN /\ SetSession(ChainChangedRuns(n, session, chainIdHex))
        /\ emitted' = Raised(ChainChangedToasts(chainIdHex), n)
        /\ Handled(n)
  /\ events' = Tail(events)
  /\ UNCHANGED <<walletAccounts, walletChain>> /\ EnvUnchanged

\* ------------------------------------------------------------- the effects
\* both effects run after the component mounts: the listeners are registered
\* and autoConnect runs up to its first await. A remount waits for the
\* previous auto-connect call to have returned.
Mount ==
  /\ ~mounted /\ mounts < MaxMounts /\ pc[0] = "idle"
  /\ mounted' = TRUE /\ mounts' = mounts + 1
  /\ listeners' = IF hasEthereum
                    THEN On(On(listeners, "accountsChanged"), "chainChanged")
                    ELSE listeners
  /\ IF hasEthereum
       THEN LET t == <<Toast("Attempting auto-connect...")>> IN
            /\ Step(0, "eth_accounts", [NewCall("autoConnect") EXCEPT !.toasts = t])
            /\ emitted' = t
       ELSE /\ CallsUnchanged
            /\ emitted' = <<>>
  /\ SessionUnchanged /\ WalletUnchanged /\ UNCHANGED hasEthereum

\* variant: the subscription effect returns no cleanup
Unmount_KeepsListeners ==
  /\ mounted
  /\ mounted' = FALSE
  /\ emitted' = <<>>
  /\ UNCHANGED <<hasEthereum, mounts, listeners>>
  /\ CallsUnchanged /\ SessionUnchanged /\ WalletUnchanged
\* the component unmounts: the cleanup of the subscription effect removes the
\* two handlers it registered; the cells and the calls in flight are untouched
Unmount ==
  /\ mounted
  /\ mounted' = FALSE
  /\ listeners' = IF hasEthereum
                    THEN RemoveListener(RemoveListener(listeners, "accountsChanged"),
                                        "chainChanged")
                    ELSE listeners
  /\ emitted' = <<>>
  /\ UNCHANGED <<hasEthereum, mounts>>
  /\ CallsUnchanged /\ SessionUnchanged /\ WalletUnchanged

AutoAccountsResolves ==
  /\ pc[0] = "eth_accounts"
  /\ IF Len(walletAccounts) > 0
       THEN ConnectBegin(0, call[0].toasts)
       ELSE Return(0, <<>>)
  /\ SessionUnchanged /\ WalletUnchanged /\ EnvUnchanged

AutoAccountsRejects ==
  /\ pc[0] = "eth_accounts"
  /\ Return(0, <<>>)
  /\ SessionUnchanged /\ WalletUnchanged /\ EnvUnchanged

\* --------------------------------------------------------------- the wallet
\* the user selects, grants or revokes accounts in the wallet
WalletAccountsChange ==
  /\ hasEthereum /\ mounted /\ Len(events) < MaxPending
  /\ \E l \in AccountLists \ {walletAccounts} :
       /\ walletAccounts' = l
       /\ events' = Emit(AccountsChangedEvent(l))
  /\ emitted' = <<>>
  /\ UNCHANGED walletChain /\ CallsUnchanged /\ SessionUnchanged /\ EnvUnchanged

\* the user changes network in the wallet
WalletChainChange ==
  /\ hasEthereum /\ mounted /\ Len(events) < MaxPending
  /\ \E c \in WalletChains \ {walletChain} : WalletOn(c)
  /\ emitted' = <<>>
  /\ CallsUnchanged /\ SessionUnchanged /\ EnvUnchanged

Next ==
  \/ Mount
  \/ AutoAccountsResolves
  \/ AutoAccountsRejects
  \/ DisconnectWallet
  \/ OnAccountsChanged
  \/ OnChainChanged
  \/ WalletAccountsChange
  \/ WalletChainChange
  \/ \E p \in Callers :
       \/ ConnectWallet(p)
       \/ RequestAccountsResolves(p)
       \/ RequestAccountsRejects(p)
       \/ GetSignerResolves(p)
       \/ GetSignerRejects(p)
       \/ GetNetworkMatches(p)
       \/ GetNetworkDiffers(p)
       \/ GetNetworkRejects(p)
       \/ SwitchToSepolia(p)
       \/ SwitchResolves(p)
       \/ SwitchRejects(p)
       \/ AddResolves(p)
       \/ AddRejects(p)

Spec == Init /\ [][Next]_vars

\* the component's life cycle with nobody clicking: mounts and unmounts, the
\* auto-connect call of each mount, the wallet and its events
Lifecycle ==
  \/ Mount
  \/ Unmount
  \/ AutoAccountsResolves
  \/ AutoAccountsRejects
  \/ OnAccountsChanged
  \/ OnChainChanged
  \/ WalletAccountsChange
  \/ WalletChainChange
  \/ RequestAccountsResolves(0)
  \/ RequestAccountsRejects(0)
  \/ GetSignerResolves(0)
  \/ GetSignerRejects(0)
  \/ GetNetworkMatches(0)
  \/ GetNetworkDiffers(0)
  \/ GetNetworkRejects(0)
  \/ SwitchResolves(0)
  \/ SwitchRejects(0)
  \/ AddResolves(0)
  \/ AddRejects(0)
SpecRemount == Init /\ [][Lifecycle]_vars

\* every request caller p awaits is eventually answered: the promise it
\* awaits resolves or rejects, and the call resumes
AdapterResponds(p) ==
  \/ (p = 0 /\ (AutoAccountsResolves \/ AutoAccountsRejects))
  \/ RequestAccountsResolves(p) \/ RequestAccountsRejects(p)
  \/ GetSignerResolves(p) \/ GetSignerRejects(p)
  \/ GetNetworkMatches(p) \/ GetNetworkDiffers(p) \/ GetNetworkRejects(p)
  \/ SwitchResolves(p) \/ SwitchRejects(p)
  \/ AddResolves(p) \/ AddRejects(p)
SpecFair == Spec /\ \A p \in Callers : WF_vars(AdapterResponds(p))

\* the same program with the answers to getNetwork in flight: in Next a call
\* resumes with the chain the wallet is on at that moment; here the wallet
\* may have served the query earlier
NextAsync ==
  \/ Next
  \/ \E p \in Callers : GetNetworkAnswers(p)
SpecAsync == Init /\ [][NextAsync]_vars

\* ================================================================== claims
Present(x) == x # None
AllAbsent == ~Present(account) /\ ~Present(chainId) /\ ~Present(provider) /\ ~Present(signer)
ConnectInFlight(p) == InFlight(p) /\ call[p].op = "connectWallet"
CountKind(ts, k) == Cardinality({i \in 1..Len(ts) : ts[i].kind = k})
SwitchAwaits == {"wallet_switchEthereumChain", "wallet_addEthereumChain"}

\* C1: in every reachable state the session is Connected exactly when the
\* account is present, chainId is the required chain id and both handles are
\* present.
C1_ConnectedIffPopulated ==
  isConnected <=>
    (Present(account) /\ chainId = Some(SEPOLIA_CHAIN_ID) /\ Present(provider) /\ Present(signer))
\* a Connected session, at rest, whose account a wallet event has replaced
C1_Witness ==
  /\ isConnected /\ emitted = <<>> /\ Present(provider)
  /\ Len(walletAccounts) > 1 /\ account = Some(walletAccounts[1]) /\ events = <<>>
  /\ \A p \in Callers : ~InFlight(p)

\* C2: whenever the session is Disconnected (isConnected false), account,
\* chainId and both handles are absent.
C2_DisconnectedAllAbsent == ~isConnected => AllAbsent

\* C3: at no point are two connectWallet calls in flight at once.
C3_AtMostOneConnect == Cardinality({p \in Callers : ConnectInFlight(p)}) <= 1

\* C4: when a connectWallet that began on the Disconnected session and ran
\* without interleaving, having been granted a non-empty account list, reads
\* the required chain id, it returns with the session Connected, account the
\* first granted account, chainId 11155111, both handles present, and exactly
\* one success notification (and no error) raised over the whole call.
C4_ConnectSucceeds ==
  [][\A p \in Callers :
       (GetNetworkMatches(p) /\ call[p].clean) =>
         /\ isConnected'
         /\ account' = Some(call[p].accounts[1])
         /\ chainId' = Some(SEPOLIA_CHAIN_ID)
         /\ Present(provider') /\ Present(signer')
         /\ pc'[p] = "idle"
         /\ CountKind(call[p].toasts \o emitted', "success") = 1
         /\ CountKind(call[p].toasts \o emitted', "error") = 0]_vars
\* an uninterleaved call from Disconnected, granted two accounts, about to
\* resume with the required chain
C4_Witness ==
  \E p \in Callers :
    /\ ConnectInFlight(p) /\ pc[p] = "getNetwork" /\ call[p].clean
    /\ NetworkOf(p) = SEPOLIA_CHAIN_ID /\ Len(call[p].accounts) > 1
    /\ ~isConnected /\ AllAbsent

\* C5: a connectWallet that began on the Disconnected session and read a
\* chain id other than 11155111 raises the warning and issues the switch
\* request without writing the session, and the session is Disconnected while
\* the switch (or add-network) request is pending and when the call returns,
\* whatever the outcome of the switch; no success notification is raised.
C5_WrongChainStaysDisconnected ==
  [][\A p \in Callers :
       /\ (ConnectInFlight(p) /\ pc[p] = "getNetwork" /\ pc'[p] \in SwitchAwaits) =>
            /\ emitted' = <<PleaseSwitch>>
            /\ pc'[p] = "wallet_switchEthereumChain"
            /\ UNCHANGED <<provider, signer, account, chainId, isConnected>>
       /\ (ConnectInFlight(p) /\ pc[p] \in SwitchAwaits /\ pc'[p] # pc[p]) =>
            /\ CountKind(emitted', "success") = 0
            /\ PleaseSwitch \in {call[p].toasts[i] : i \in 1..Len(call[p].toasts)}
            /\ UNCHANGED <<provider, signer, account, chainId, isConnected>>
            /\ call[p].clean => (~isConnected' /\ AllAbsent')]_vars
\* an uninterleaved call from Disconnected whose switch request is pending
C5_Witness ==
  \E p \in Callers :
    /\ ConnectInFlight(p) /\ pc[p] = "wallet_switchEthereumChain" /\ call[p].clean
    /\ call[p].toasts = <<PleaseSwitch>> /\ ~isConnected

\* C6: right after the catch block of connectWallet has raised its error
\* notification the session is Disconnected, whatever it was before.
C6_FailureResets == (emitted = <<ConnectFailed>>) => ~isConnected

\* C7: with no injected provider, connectWallet leaves the session
\* Disconnected with every field absent, issues no adapter request, and raises
\* exactly one error notification.
C7_NoProvider ==
  [][\A p \in Callers :
       (ConnectWallet(p) /\ ~hasEthereum) =>
         /\ ~isConnected' /\ AllAbsent'
         /\ \A q \in Callers : pc'[q] = "idle"
         /\ Len(emitted') = 1 /\ CountKind(emitted', "error") = 1]_vars
C7_Witness == ~hasEthereum /\ emitted = <<NotInstalled>> /\ ~isConnected /\ AllAbsent

\* C8: delivering chainChanged(x) with x other than 11155111 to a Connected
\* session clears account, chainId and both handles, leaves it Disconnected,
\* raises the warning, and issues no request.
C8_ChainChangeDisconnects ==
  [][(OnChainChanged /\ isConnected /\ parseInt16(Head(events).hex) # SEPOLIA_CHAIN_ID) =>
       /\ ~isConnected' /\ AllAbsent'
       /\ PleaseSwitch \in {emitted'[i] : i \in 1..Len(emitted')}
       /\ pc' = pc]_vars
\* a Connected session about to be handed a chainChanged for another chain
C8_Witness ==
  /\ isConnected /\ events # <<>> /\ Head(events).type = "chainChanged"
  /\ parseInt16(Head(events).hex) = 1

\* C9: delivering accountsChanged([]) to a Connected session leaves it
\* Disconnected with account, chainId and both handles cleared.
C9_NoAccountsDisconnects ==
  [][(OnAccountsChanged /\ isConnected /\ Head(events).accounts = <<>>) =>
       (~isConnected' /\ AllAbsent')]_vars
\* a Connected session about to be handed an empty accountsChanged
C9_Witness ==
  /\ isConnected /\ events # <<>> /\ Head(events).type = "accountsChanged"
  /\ Head(events).accounts = <<>>

\* C10: delivering accountsChanged with a non-empty list sets account to the
\* first entry and leaves isConnected, chainId and both handles as they were,
\* whatever the session state.
C10_AccountsChangeFrame ==
  [][(OnAccountsChanged /\ Head(events).accounts # <<>>) =>
       /\ account' = Some(Head(events).accounts[1])
       /\ UNCHANGED <<isConnected, chainId, provider, signer>>]_vars
\* a Connected session about to be handed a two-entry list with a new head
C10_Witness ==
  /\ events # <<>> /\ Head(events).type = "accountsChanged"
  /\ Len(Head(events).accounts) > 1
  /\ isConnected /\ account # Some(Head(events).accounts[1])

\* C11: disconnectWallet, from any session state, leaves the session
\* Disconnected with account, chainId and both handles absent; and called on
\* the session a disconnectWallet has just left, it leaves that session as it
\* is.
C11_DisconnectIdempotent ==
  [][DisconnectWallet =>
       /\ ~isConnected' /\ AllAbsent'
       /\ (emitted = <<Toast("Wallet disconnected")>> /\ session = Cleared) =>
            session' = session]_vars
\* a Connected session on which disconnectWallet can be called
C11_Witness == mounted /\ isConnected /\ Present(account) /\ Present(chainId)

\* the notifications by which switchToSepolia reports a failure
FailureNotices ==
  {Toast("Failed to switch to Sepolia network"), Toast("Failed to add Sepolia network")}
Failures(ts) == {i \in 1..Len(ts) : ts[i] \in FailureNotices}

\* C12: when the switch request is rejected with code 4902, the call goes on
\* to await an add-network request that carries chain id 11155111 (as
\* "0xaa36a7"), the chain name, the native currency, the RPC URL and the
\* explorer URL, having raised no failure notification; and a call awaiting
\* the add-network request raises a failure notification only when that
\* request is rejected.
C12_AddBeforeFailure ==
  [][\A p \in Callers :
       /\ SwitchRejectsWith(p, UNRECOGNIZED_CHAIN) =>
            /\ pc'[p] = "wallet_addEthereumChain"
            /\ RequestAt(pc'[p]).method = "wallet_addEthereumChain"
            /\ RequestAt(pc'[p]).params =
                 << <<"0", "x", "a", "a", "3", "6", "a", "7">>, "Sepolia Test Network",
                    "Sepolia Ether", "ETH", "18", SEPOLIA_RPC_URL,
                    "https://sepolia.etherscan.io/" >>
            /\ parseInt16(RequestAt(pc'[p]).params[1]) = 11155111
            /\ Failures(call'[p].toasts) = {} /\ emitted' = <<>>
       /\ (pc[p] = "wallet_addEthereumChain" /\ pc'[p] # pc[p]) =>
            /\ pc'[p] = "idle"
            /\ (Failures(emitted') # {}) <=> AddRejects(p)]_vars
\* a standalone switchToSepolia whose switch request was rejected with 4902
\* and whose add-network request is pending
C12_Witness ==
  \E p \in Callers :
    /\ pc[p] = "wallet_addEthereumChain" /\ call[p].op = "switchToSepolia"
    /\ RequestAt(pc[p]) = AddRequest /\ Failures(call[p].toasts) = {}

C14_NoAccountsNoChange ==
  [][\A p \in Callers :
       /\ (ConnectWallet(p) \/ (p = 0 /\ AutoAccountsResolves)) =>
            UNCHANGED <<isConnected, account, chainId, provider, signer>>
       /\ (RequestAccountsResolves(p) /\ Len(walletAccounts) = 0) =>
            /\ UNCHANGED <<isConnected, account, chainId, provider, signer>>
            /\ pc'[p] = "idle"
            /\ CountKind(call[p].toasts, "success") = 0
            /\ emitted' = <<>>]_vars
\* a connectWallet called on a Connected session, awaiting the grant of a
\* wallet that exposes no account
C14_Witness ==
  \E p \in Callers :
    /\ ConnectInFlight(p) /\ pc[p] = "eth_requestAccounts"
    /\ Len(walletAccounts) = 0 /\ isConnected /\ Present(account)

\* C15: the call started by the auto-connect effect (caller 0: autoConnect
\* and the connectWallet it awaits) has raised no error notification.
C15_AutoConnectSilent == CountKind(call[0].toasts, "error") = 0

\* C16: over any sequence of mounts and unmounts, while the component is
\* mounted at most one accountsChanged handler and at most one chainChanged
\* handler are registered on the wallet, and none of either while it is not.
C16_OneListenerEach ==
  /\ mounted => (listeners.accountsChanged <= 1 /\ listeners.chainChanged <= 1)
  /\ ~mounted => (listeners.accountsChanged = 0 /\ listeners.chainChanged = 0)
\* the component mounted again after an unmount, one handler of each kind
\* registered and an event waiting for it
C16_Witness ==
  /\ mounted /\ mounts > 1 /\ events # <<>>
  /\ listeners = [accountsChanged |-> 1, chainChanged |-> 1]

\* C17: the completion of connectWallet writes the session as Connected with
\* chainId 11155111 and the account it captured, whatever the session has
\* become since the call began and whatever chain the wallet is on by then;
\* the witness is the state this leaves behind when a chainChanged to another
\* chain was handled between the wallet's answer and the completion.
C17_CompletionOverwrites ==
  [][\A p \in Callers :
       GetNetworkMatches(p) =>
         /\ isConnected' /\ chainId' = Some(SEPOLIA_CHAIN_ID)
         /\ account' = Some(call[p].accounts[1])
         /\ Present(provider') /\ Present(signer')]_vars
\* connectWallet has just written Connected with chainId 11155111 while the
\* wallet is on another chain, no event is pending and no call is in flight
C17_Witness ==
  /\ isConnected /\ chainId = Some(SEPOLIA_CHAIN_ID) /\ emitted = <<ConnectedToast>>
  /\ walletChain # SEPOLIA_CHAIN_ID /\ events = <<>>
  /\ \A p \in Callers : ~InFlight(p)

\* C18: when every awaited wallet request is eventually answered, every
\* connectWallet call in flight eventually returns and its caller is at rest
\* again.
C18_ConnectResolves ==
  \A p \in Callers : ConnectInFlight(p) ~> (pc[p] = "idle")
\* a connectWallet as deep as it can get: the switch was rejected with 4902
\* and the add-network request is pending
C18_Witness ==
  \E p \in Callers : ConnectInFlight(p) /\ pc[p] = "wallet_addEthereumChain"

\* C19: whenever the session is Connected, no connectWallet is in flight and
\* no wallet event is pending, the session's account is the account the
\* wallet has selected (the first it exposes).
C19_AccountIsSelected ==
  (isConnected /\ events = <<>> /\ \A p \in Callers : ~ConnectInFlight(p)) =>
    (Len(walletAccounts) > 0 /\ account = Some(walletAccounts[1]))

\* C20: a step that takes the session from not Connected to Connected is the
\* completion of a connectWallet call that holds a non-empty granted list and
\* resumed from getNetwork with 11155111, and that step leaves account (the
\* first granted), chainId (11155111) and both handles set along with the
\* flag; no handler, switch step, disconnect or auto-connect step does it.
C20_OnlyConnectConnects ==
  [][(~isConnected /\ isConnected') =>
       \E p \in Callers :
         /\ GetNetworkMatches(p) /\ ConnectInFlight(p)
         /\ Len(call[p].accounts) > 0 /\ NumberOf(NetworkOf(p)) = 11155111
         /\ account' = Some(call[p].accounts[1]) /\ chainId' = Some(11155111)
         /\ Present(provider') /\ Present(signer')]_vars
\* a connectWallet about to complete on a session that is not Connected and
\* that handlers have written to since the call began
C20_Witness ==
  \E p \in Callers :
    /\ ConnectInFlight(p) /\ pc[p] = "getNetwork" /\ ~call[p].clean
    /\ NumberOf(NetworkOf(p)) = 11155111 /\ ~isConnected /\ Present(account)

====
